---------------------------- MODULE Spec2Model ----------------------------
(***************************************************************************)
(* A model of cpp/src/arrow/visitor_inline.h: the inline type, array and   *)
(* scalar dispatchers, the null-aware array data visitors                   *)
(* (VisitArrayDataInline, ArrayDataVisitor) and the null bitmap visitor     *)
(* (VisitNullBitmapInline).                                                 *)
(*                                                                         *)
(* Buffers are sequences (bytes for bitmaps and byte buffers, elements for  *)
(* typed value and offset buffers); a pointer is a buffer index plus an     *)
(* element index.  One traversal is run step by step: one step per call of  *)
(* the bit block counter, one step per callback invocation.                 *)
(***************************************************************************)
EXTENDS Integers, Sequences, FiniteSets, TLC

VARIABLES
  entry,            \* the entry point called: [fn, T, form]
  arr,              \* the ArrayData traversed (or the bitmap arguments)
  type_id,          \* the runtime type tag of the value handed to a dispatcher
  pc,               \* "call", "while", "for", "done"
  bit_counter,      \* internal::OptionalBitBlockCounter
  block,            \* internal::BitBlockCount of the current run
  position,         \* int64_t position
  offset_position,  \* int64_t offset_position (VisitNullBitmapInline)
  i,                \* the inner for loops' int64_t i
  data,             \* the adapters' data pointer
  offsets,          \* the binary adapter's offsets pointer
  calls,            \* the invocations of func so far, in order
  visits,           \* the invocations of visitor methods so far, in order
  ret               \* the value the entry point returned

vars == <<entry, arr, type_id, pc, bit_counter, block, position,
          offset_position, i, data, offsets, calls, visits, ret>>

----------------------------------------------------------------------------
(* Bounds of the model. *)

\* Small arrays have 0..MaxLength elements.
MaxLength == 3
\* Small arrays are sliced at offsets 0..MaxOffset.
MaxOffset == 1
\* Besides the longest run it may produce, the bit run scanner may cut a run
\* short after 1..MaxShortRun positions.
MaxShortRun == 2

----------------------------------------------------------------------------
(* Status *)

Status(code, msg) == [code |-> code, msg |-> msg]
StatusOK == Status("OK", <<>>)
\* What a caller's callback or visitor method may return.
CallbackStatuses ==
  {StatusOK, Status("Invalid", <<"callback failed">>),
   Status("IOError", <<"disk">>), Status("NotImplemented", <<"visitor">>)}
\* The pc = "call" value of ret, and what a void function "returns".
NotReturned == Status("(running)", <<>>)
Void == Status("(void)", <<>>)


\* Mutant: a callback's failure is dropped and the scan goes on.
ReturnNotOK_Ignored(form, st) == FALSE

\* ARROW_RETURN_NOT_OK(expr): return expr's status from the enclosing
\* function unless it is OK.  The void forms have no such return.
ReturnNotOK(form, st) == form = "Status" /\ st.code # "OK"

----------------------------------------------------------------------------
(* Buffers, bits and pointers *)

Min(a, b) == IF a < b THEN a ELSE b

Buffer(d) == [present |-> TRUE, data |-> d]
NoBuffer == [present |-> FALSE, data |-> <<>>]

\* BitUtil::GetBit(bits, i): bit (i mod 8) of byte (i div 8), least
\* significant bit first.
GetBit(bits, n) == (bits[(n \div 8) + 1] \div (2 ^ (n % 8))) % 2 = 1

\* The number of set bits among bits start .. start + n - 1.
CountSetBits(bits, start, n) ==
  Cardinality({j \in start .. (start + n - 1) : GetBit(bits, j)})

\* The bytes of a bitmap of nbits bits whose set bits are those of S.
RECURSIVE PackBits(_, _, _)
PackBits(S, base, k) ==
  IF k = 8 THEN 0
  ELSE (IF (base + k) \in S THEN 2 ^ k ELSE 0) + PackBits(S, base, k + 1)

Bitmap(S, nbits) ==
  [b \in 1 .. ((nbits + 7) \div 8) |-> PackBits(S, (b - 1) * 8, 0)]

\* A pointer: the buffer it points into (0, 1, 2: arr.buffers[k]; -1: the
\* local empty_value; -2: none) and an index in units of the pointee type.
Ptr(buf, idx) == [buf |-> buf, idx |-> idx]
NullPtr == Ptr(-2, 0)

\* ArrayData::GetValues<T>(k): buffers[k]->data() as a T*, plus the array's
\* offset; GetValues<T>(k, absolute_offset): plus absolute_offset instead.
GetValues(a, k) == Ptr(k, a.offset)
GetValuesAbs(a, k, absolute_offset) == Ptr(k, absolute_offset)

\* p[j]
Deref(a, p, j) == a.buffers[p.buf].data[p.idx + j + 1]

----------------------------------------------------------------------------
(* util::optional and util::string_view *)

Some(v) == [has_value |-> TRUE, value |-> v]
None == [has_value |-> FALSE, value |-> "nullopt"]

\* util::string_view(ptr, size)
StringView(ptr, size) == [ptr |-> ptr, size |-> size]

----------------------------------------------------------------------------
(* The arrays traversed *)

ArrayData(off, len, b0, b1, b2, bw) ==
  [offset |-> off, length |-> len, byte_width |-> bw,
   buffers |-> [k \in 0 .. 2 |-> CASE k = 0 -> b0 [] k = 1 -> b1 [] OTHER -> b2]]

\* Every validity buffer of an array of len elements at offset off: absent,
\* or any pattern of the bits 0 .. off + len - 1.
ValidityBuffers(off, len) ==
  {NoBuffer} \cup {Buffer(Bitmap(S, off + len)) : S \in SUBSET (0 .. (off + len - 1))}

\* Value buffers of n elements.
NumericValues(n) == {[j \in 1 .. n |-> j], [j \in 1 .. n |-> 50 - (7 * j)]}
BooleanValues(n) ==
  {Bitmap({j \in 0 .. (n - 1) : j % 2 = 0}, n),
   Bitmap({j \in 0 .. (n - 1) : j % 3 = 1}, n)}
\* "abcdefghi"
ValueBytes == <<97, 98, 99, 100, 101, 102, 103, 104, 105>>
OffsetsA == <<0, 3, 3, 7, 7, 8, 9, 9, 9, 9>>
OffsetsB == <<1, 1, 2, 5, 5, 6, 9, 9, 9, 9>>
ByteWidths == {2, 3}

SmallArrays(T) ==
  UNION {
    UNION {
      LET n == off + len IN
      CASE T = "c_type" ->
             {ArrayData(off, len, b0, Buffer(v), NoBuffer, 0) :
                b0 \in ValidityBuffers(off, len), v \in NumericValues(n)}
        [] T = "boolean" ->
             {ArrayData(off, len, b0, Buffer(v), NoBuffer, 0) :
                b0 \in ValidityBuffers(off, len), v \in BooleanValues(n)}
        [] T = "base_binary" ->
             {ArrayData(off, len, b0, Buffer(SubSeq(o, 1, n + 1)), Buffer(ValueBytes), 0) :
                b0 \in ValidityBuffers(off, len), o \in {OffsetsA, OffsetsB}}
             \cup
             {ArrayData(off, len, b0, Buffer([j \in 1 .. (n + 1) |-> 0]), NoBuffer, 0) :
                b0 \in ValidityBuffers(off, len)}
        [] T = "fixed_size_binary" ->
             {ArrayData(off, len, b0, Buffer([j \in 1 .. (n * bw) |-> j]), NoBuffer, bw) :
                b0 \in ValidityBuffers(off, len), bw \in ByteWidths}
        [] OTHER ->
             {ArrayData(off, len, b0, NoBuffer, NoBuffer, 0) :
                b0 \in ValidityBuffers(off, len)}
      : len \in 0 .. MaxLength}
    : off \in 0 .. MaxOffset}

\* A fixed-width integer array of length 5, validity 10110, values [1,_,3,4,_].
ExampleInts ==
  ArrayData(0, 5, Buffer(Bitmap({0, 2, 3}, 5)), Buffer(<<1, 0, 3, 4, 0>>), NoBuffer, 0)

\* A string array with offsets [0,3,3,7] over "abcdefg", all valid, length 3.
ExampleStrings ==
  ArrayData(0, 3, Buffer(Bitmap({0, 1, 2}, 3)), Buffer(<<0, 3, 3, 7>>),
            Buffer(SubSeq(ValueBytes, 1, 7)), 0)

\* Arrays longer than a 64-bit word whose run of valid positions 61 .. 64
\* crosses the word boundary at position 63/64.
WordBoundaryLength == 66
WordBoundaryBits(off) ==
  Buffer(Bitmap({off + j : j \in 61 .. 64}, off + WordBoundaryLength))
WordBoundaryInts ==
  ArrayData(0, WordBoundaryLength, WordBoundaryBits(0),
            Buffer([j \in 1 .. WordBoundaryLength |-> j]), NoBuffer, 0)
WordBoundaryValidity(off) ==
  ArrayData(off, WordBoundaryLength, WordBoundaryBits(off), NoBuffer, NoBuffer, 0)

Arrays(T) ==
  SmallArrays(T) \cup
  CASE T = "c_type" -> {ExampleInts, WordBoundaryInts}
    [] T = "base_binary" -> {ExampleStrings}
    [] T = "none" -> {WordBoundaryValidity(0), WordBoundaryValidity(3)}
    [] OTHER -> {}

----------------------------------------------------------------------------
(* The entry points *)

Entry(fn, T, form) == [fn |-> fn, T |-> T, form |-> form]

TypeCategories == {"c_type", "boolean", "base_binary", "fixed_size_binary"}

TraversalEntries ==
  {Entry("VisitArrayDataInline", T, form) :
     T \in TypeCategories, form \in {"Status", "Void"}}
  \cup {Entry("ArrayDataVisitor", T, "Status") : T \in TypeCategories}
  \cup {Entry("VisitNullBitmapInline", "none", form) : form \in {"Status", "Void"}}

NoBlock == [length |-> 0, popcount |-> 0]
NoCounter == [has_bitmap |-> FALSE, offset |-> 0, length |-> 0, position |-> 0]

Init ==
  \E e \in TraversalEntries :
    \E a \in Arrays(e.T) :
      /\ entry = e
      /\ arr = a
      /\ type_id = "NA"
      /\ pc = "call"
      /\ bit_counter = NoCounter
      /\ block = NoBlock
      /\ position = 0
      /\ offset_position = 0
      /\ i = 0
      /\ data = NullPtr
      /\ offsets = NullPtr
      /\ calls = <<>>
      /\ visits = <<>>
      /\ ret = NotReturned


----------------------------------------------------------------------------
(* internal::OptionalBitBlockCounter and internal::BitBlockCount *)

\* The widest run the scanner reports over a bitmap: one 64-bit word.
kWordBits == 64

OptionalBitBlockCounter(bitmap, offset, length) ==
  [has_bitmap |-> bitmap.present, offset |-> offset, length |-> length,
   position |-> 0]

\* The lengths the next run may have: the rest of the range (of the word,
\* over a bitmap), or a shorter run of 1 .. MaxShortRun positions.
RunLengths(bc) ==
  LET rem == bc.length - bc.position
      full == IF bc.has_bitmap THEN Min(rem, kWordBits) ELSE rem
  IN {n \in 1 .. full : n <= MaxShortRun \/ n = full}

\* NextBlock(), for a run of n positions: its length and the number of set
\* bits in it (every bit counts as set when there is no bitmap).
NextBlock(bc, bitmap, n) ==
  [length |-> n,
   popcount |-> IF bc.has_bitmap
                THEN CountSetBits(bitmap.data, bc.offset + bc.position, n)
                ELSE n]

Advance(bc, n) == [bc EXCEPT !.position = @ + n]

AllSet(b) == b.length = b.popcount
NoneSet(b) == b.popcount = 0

\* BitUtil::GetBit(bitmap, n) on the pointer the visitors hold: a null
\* pointer when the array has no validity buffer, and reading through it is
\* undefined (either answer).
GetBitOf(bitmap, n) ==
  IF bitmap.present THEN {GetBit(bitmap.data, n)} ELSE BOOLEAN

----------------------------------------------------------------------------
(* internal::ArrayDataInlineVisitor<T>: the four layout adapters *)


\* Mutant: the array's offset is not applied to the values.
CTypeData_Unsliced(a) == GetValuesAbs(a, 1, 0)

\* const c_type* data = arr.GetValues<c_type>(1)
CTypeData(a) == GetValues(a, 1)

\* const uint8_t* data = arr.buffers[1]->data()
BooleanData(a) == Ptr(1, 0)

\* const offset_type* offsets = arr.GetValues<offset_type>(1)
BinaryOffsets(a) == GetValues(a, 1)


\* Mutant: the array's offset is applied to the value bytes as well.
BinaryData_Sliced(a) ==
  IF ~a.buffers[2].present THEN Ptr(-1, 0) ELSE GetValues(a, 2)

\* data = &empty_value without a value buffer, else
\* arr.GetValues<uint8_t>(2, /*absolute_offset=*/0)
BinaryData(a) ==
  IF ~a.buffers[2].present THEN Ptr(-1, 0) ELSE GetValuesAbs(a, 2, 0)

\* const char* data = arr.GetValues<char>(1, arr.offset * byte_width)
FixedSizeBinaryData(a) == GetValuesAbs(a, 1, a.offset * a.byte_width)

\* The pointers each VisitStatus / VisitVoid sets up before the scan.
AdapterData(T, a) ==
  CASE T = "c_type" -> CTypeData(a)
    [] T = "boolean" -> BooleanData(a)
    [] T = "base_binary" -> BinaryData(a)
    [] T = "fixed_size_binary" -> FixedSizeBinaryData(a)
    [] OTHER -> NullPtr

AdapterOffsets(T, a) ==
  IF T = "base_binary" THEN BinaryOffsets(a) ELSE NullPtr

\* data[i]
CTypeValue(a, d, n) == Deref(a, d, n)

\* BitUtil::GetBit(data, offset + i)
BooleanValue(a, d, n) == GetBit(a.buffers[d.buf].data, a.offset + n)

\* util::string_view(data + offsets[i], offsets[i + 1] - offsets[i])
BinaryValue(a, d, o, n) ==
  StringView(Ptr(d.buf, d.idx + Deref(a, o, n)), Deref(a, o, n + 1) - Deref(a, o, n))

\* util::string_view(data, byte_width)
FixedSizeBinaryValue(a, d) == StringView(d, a.byte_width)


\* Mutant: the null lambda does not advance the running pointer.
FixedSizeBinaryNullData_NotAdvanced(a, d) == d

\* data += byte_width, in the not-null and in the null lambda
FixedSizeBinaryNotNullData(a, d) == Ptr(d.buf, d.idx + a.byte_width)
FixedSizeBinaryNullData(a, d) == Ptr(d.buf, d.idx + a.byte_width)

\* The optional the visit_not_null(i) lambda hands to func.
VisitNotNullArg(T, a, d, o, n) ==
  CASE T = "c_type" -> Some(CTypeValue(a, d, n))
    [] T = "boolean" -> Some(BooleanValue(a, d, n))
    [] T = "base_binary" -> Some(BinaryValue(a, d, o, n))
    [] OTHER -> Some(FixedSizeBinaryValue(a, d))

\* The optional the visit_null() lambda hands to func.
VisitNullArg == None

\* The data pointer after a lambda ran.
DataAfter(T, a, d, not_null) ==
  IF T = "fixed_size_binary"
  THEN (IF not_null THEN FixedSizeBinaryNotNullData(a, d)
        ELSE FixedSizeBinaryNullData(a, d))
  ELSE d

----------------------------------------------------------------------------
(* ArrayDataVisitor<T>::Visit: the func it hands to VisitStatus *)


\* Mutant: the test of has_value is inverted.
ArrayDataVisitorFunc_Inverted(v) ==
  IF ~v.has_value THEN [method |-> "VisitValue", arg |-> v.value]
  ELSE [method |-> "VisitNull", arg |-> "(none)"]

\* The visitor method func calls for the optional v.
ArrayDataVisitorFunc(v) ==
  IF v.has_value THEN [method |-> "VisitValue", arg |-> v.value]
  ELSE [method |-> "VisitNull", arg |-> "(none)"]

\* What func returns: the status of the callback (VisitArrayDataInline) or
\* of the visitor method (ArrayDataVisitor); nothing in the void form.
FuncResults(form) == IF form = "Status" THEN CallbackStatuses ELSE {Void}

Call(arg, pos, st) == [arg |-> arg, position |-> pos, status |-> st]
MethodCall(m, st) == [method |-> m.method, arg |-> m.arg, status |-> st]

----------------------------------------------------------------------------
(* detail::VisitBitBlocks and detail::VisitBitBlocksVoid, as called by    *)
(* ArrayDataInlineVisitor<T>::VisitStatus and VisitVoid                    *)

ValueEntry == entry.fn \in {"VisitArrayDataInline", "ArrayDataVisitor"}

\* The adapter's set-up and the scan's initialisation.
VisitBitBlocks_Begin ==
  /\ pc = "call"
  /\ ValueEntry
  /\ data' = AdapterData(entry.T, arr)
  /\ offsets' = AdapterOffsets(entry.T, arr)
  /\ bit_counter' = OptionalBitBlockCounter(arr.buffers[0], arr.offset, arr.length)
  /\ position' = 0
  /\ pc' = "while"
  /\ UNCHANGED <<entry, arr, type_id, block, offset_position, i, calls, visits, ret>>

\* while (position < length)
VisitBitBlocks_WhileCond(pos, length) == pos < length

\* for (...; i < block.length; ...)
VisitBitBlocks_ForCond(n, b) == n < b.length


\* Mutant: the loops advance i alone.
VisitBitBlocks_NextPosition_Stuck(pos) == pos

\* ++i, ++position
VisitBitBlocks_NextPosition(pos) == pos + 1

\* The bit the mixed branch tests: offset + position.
VisitBitBlocks_BitIndex(offset, pos) == offset + pos


\* Mutant: the all-set branch calls visit_null.
VisitBitBlocks_Branch_Swapped(b, bitmap, offset, pos) ==
  IF AllSet(b) THEN {FALSE}
  ELSE IF NoneSet(b) THEN {TRUE}
  ELSE GetBitOf(bitmap, offset + pos)

\* Which lambdas a position of run b may get: TRUE for visit_not_null.
VisitBitBlocks_Branch(b, bitmap, offset, pos) ==
  IF AllSet(b) THEN {TRUE}
  ELSE IF NoneSet(b) THEN {FALSE}
  ELSE GetBitOf(bitmap, VisitBitBlocks_BitIndex(offset, pos))

\* block = bit_counter.NextBlock()
VisitBitBlocks_NextBlock ==
  /\ pc = "while"
  /\ ValueEntry
  /\ VisitBitBlocks_WhileCond(position, arr.length)
  /\ \E n \in RunLengths(bit_counter) :
       /\ block' = NextBlock(bit_counter, arr.buffers[0], n)
       /\ bit_counter' = Advance(bit_counter, n)
  /\ i' = 0
  /\ pc' = "for"
  /\ UNCHANGED <<entry, arr, type_id, position, offset_position, data, offsets,
                 calls, visits, ret>>

\* return Status::OK() (or the end of the void function)
VisitBitBlocks_Return ==
  /\ pc = "while"
  /\ ValueEntry
  /\ ~VisitBitBlocks_WhileCond(position, arr.length)
  /\ ret' = IF entry.form = "Status" THEN StatusOK ELSE Void
  /\ pc' = "done"
  /\ UNCHANGED <<entry, arr, type_id, bit_counter, block, position,
                 offset_position, i, data, offsets, calls, visits>>

\* One iteration of a for loop: one lambda call, so one call of func.
VisitBitBlocks_Visit ==
  /\ pc = "for"
  /\ ValueEntry
  /\ VisitBitBlocks_ForCond(i, block)
  /\ \E not_null \in VisitBitBlocks_Branch(block, arr.buffers[0], arr.offset, position) :
     \E st \in FuncResults(entry.form) :
       LET arg == IF not_null
                  THEN VisitNotNullArg(entry.T, arr, data, offsets, position)
                  ELSE VisitNullArg
       IN /\ calls' = Append(calls, Call(arg, position, st))
          /\ visits' = IF entry.fn = "ArrayDataVisitor"
                       THEN Append(visits, MethodCall(ArrayDataVisitorFunc(arg), st))
                       ELSE visits
          /\ data' = DataAfter(entry.T, arr, data, not_null)
          /\ IF ReturnNotOK(entry.form, st)
             THEN /\ pc' = "done"
                  /\ ret' = st
                  /\ UNCHANGED <<i, position>>
             ELSE /\ i' = i + 1
                  /\ position' = VisitBitBlocks_NextPosition(position)
                  /\ UNCHANGED <<pc, ret>>
  /\ UNCHANGED <<entry, arr, type_id, bit_counter, block, offset_position, offsets>>

\* The for loop's exit.
VisitBitBlocks_EndFor ==
  /\ pc = "for"
  /\ ValueEntry
  /\ ~VisitBitBlocks_ForCond(i, block)
  /\ pc' = "while"
  /\ UNCHANGED <<entry, arr, type_id, bit_counter, block, position,
                 offset_position, i, data, offsets, calls, visits, ret>>

----------------------------------------------------------------------------
(* VisitNullBitmapInline, Status and void forms: called with               *)
(* valid_bits = arr.buffers[0] (or nullptr), valid_bits_offset =           *)
(* arr.offset, num_values = arr.length                                     *)

BitmapEntry == entry.fn = "VisitNullBitmapInline"

VisitNullBitmapInline_Begin ==
  /\ pc = "call"
  /\ BitmapEntry
  /\ bit_counter' = OptionalBitBlockCounter(arr.buffers[0], arr.offset, arr.length)
  /\ position' = 0
  /\ offset_position' = arr.offset
  /\ pc' = "while"
  /\ UNCHANGED <<entry, arr, type_id, block, i, data, offsets, calls, visits, ret>>


\* Mutant: the mixed branch indexes the bitmap by position, without the
\* bitmap's offset.
VisitNullBitmapInline_BitIndex_NoOffset(offset_pos, n) == position + n

\* The bit the mixed branch tests: offset_position + i.
VisitNullBitmapInline_BitIndex(offset_pos, n) == offset_pos + n

\* What func is called with at a position of run b.
VisitNullBitmapInline_Arg(b, valid_bits, offset_pos, n) ==
  IF AllSet(b) THEN {TRUE}
  ELSE IF NoneSet(b) THEN {FALSE}
  ELSE GetBitOf(valid_bits, VisitNullBitmapInline_BitIndex(offset_pos, n))

\* position += block.length (and offset_position likewise)
VisitNullBitmapInline_Skip(pos, b) == pos + b.length

VisitNullBitmapInline_NextBlock ==
  /\ pc = "while"
  /\ BitmapEntry
  /\ position < arr.length
  /\ \E n \in RunLengths(bit_counter) :
       /\ block' = NextBlock(bit_counter, arr.buffers[0], n)
       /\ bit_counter' = Advance(bit_counter, n)
  /\ i' = 0
  /\ pc' = "for"
  /\ UNCHANGED <<entry, arr, type_id, position, offset_position, data, offsets,
                 calls, visits, ret>>

VisitNullBitmapInline_Return ==
  /\ pc = "while"
  /\ BitmapEntry
  /\ ~(position < arr.length)
  /\ ret' = IF entry.form = "Status" THEN StatusOK ELSE Void
  /\ pc' = "done"
  /\ UNCHANGED <<entry, arr, type_id, bit_counter, block, position,
                 offset_position, i, data, offsets, calls, visits>>

\* One iteration of a for loop: one call of func.  position does not move
\* inside the loop, so the logical position is position + i.
VisitNullBitmapInline_Visit ==
  /\ pc = "for"
  /\ BitmapEntry
  /\ i < block.length
  /\ \E is_valid \in VisitNullBitmapInline_Arg(block, arr.buffers[0], offset_position, i) :
     \E st \in FuncResults(entry.form) :
       /\ calls' = Append(calls, Call(is_valid, position + i, st))
       /\ IF ReturnNotOK(entry.form, st)
          THEN /\ pc' = "done"
               /\ ret' = st
               /\ UNCHANGED i
          ELSE /\ i' = i + 1
               /\ UNCHANGED <<pc, ret>>
  /\ UNCHANGED <<entry, arr, type_id, bit_counter, block, position,
                 offset_position, data, offsets, visits>>

VisitNullBitmapInline_EndFor ==
  /\ pc = "for"
  /\ BitmapEntry
  /\ ~(i < block.length)
  /\ position' = VisitNullBitmapInline_Skip(position, block)
  /\ offset_position' = VisitNullBitmapInline_Skip(offset_position, block)
  /\ pc' = "while"
  /\ UNCHANGED <<entry, arr, type_id, bit_counter, block, i, data, offsets,
                 calls, visits, ret>>

----------------------------------------------------------------------------
(* VisitTypeInline, VisitArrayInline, VisitScalarInline *)

ARROW_GENERATE_FOR_ALL_INTEGER_TYPES ==
  <<"Int8", "UInt8", "Int16", "UInt16", "Int32", "UInt32", "Int64", "UInt64">>

ARROW_GENERATE_FOR_ALL_NUMERIC_TYPES ==
  ARROW_GENERATE_FOR_ALL_INTEGER_TYPES \o <<"HalfFloat", "Float", "Double">>


\* Mutant: the list lacks LargeList.
ARROW_GENERATE_FOR_ALL_TYPES_NoLargeList ==
  <<"Null", "Boolean">> \o ARROW_GENERATE_FOR_ALL_NUMERIC_TYPES \o
  <<"String", "Binary", "LargeString", "LargeBinary", "FixedSizeBinary",
    "Duration", "Date32", "Date64", "Timestamp", "Time32", "Time64",
    "MonthInterval", "DayTimeInterval", "Decimal128", "List",
    "Map", "FixedSizeList", "Struct", "SparseUnion", "DenseUnion",
    "Dictionary", "Extension">>

ARROW_GENERATE_FOR_ALL_TYPES ==
  <<"Null", "Boolean">> \o ARROW_GENERATE_FOR_ALL_NUMERIC_TYPES \o
  <<"String", "Binary", "LargeString", "LargeBinary", "FixedSizeBinary",
    "Duration", "Date32", "Date64", "Timestamp", "Time32", "Time64",
    "MonthInterval", "DayTimeInterval", "Decimal128", "List", "LargeList",
    "Map", "FixedSizeList", "Struct", "SparseUnion", "DenseUnion",
    "Dictionary", "Extension">>

\* TYPE_CLASS##Type::type_id, for every concrete type class of the library.
TypeIdOf ==
  [Null |-> "NA", Boolean |-> "BOOL",
   Int8 |-> "INT8", UInt8 |-> "UINT8", Int16 |-> "INT16", UInt16 |-> "UINT16",
   Int32 |-> "INT32", UInt32 |-> "UINT32", Int64 |-> "INT64", UInt64 |-> "UINT64",
   HalfFloat |-> "HALF_FLOAT", Float |-> "FLOAT", Double |-> "DOUBLE",
   String |-> "STRING", Binary |-> "BINARY", LargeString |-> "LARGE_STRING",
   LargeBinary |-> "LARGE_BINARY", FixedSizeBinary |-> "FIXED_SIZE_BINARY",
   Duration |-> "DURATION", Date32 |-> "DATE32", Date64 |-> "DATE64",
   Timestamp |-> "TIMESTAMP", Time32 |-> "TIME32", Time64 |-> "TIME64",
   MonthInterval |-> "INTERVAL_MONTHS", DayTimeInterval |-> "INTERVAL_DAY_TIME",
   Decimal128 |-> "DECIMAL", List |-> "LIST", LargeList |-> "LARGE_LIST",
   Map |-> "MAP", FixedSizeList |-> "FIXED_SIZE_LIST", Struct |-> "STRUCT",
   SparseUnion |-> "SPARSE_UNION", DenseUnion |-> "DENSE_UNION",
   Dictionary |-> "DICTIONARY", Extension |-> "EXTENSION"]

TypeClasses == DOMAIN TypeIdOf
RecognizedTypeIds == {TypeIdOf[c] : c \in TypeClasses}
\* Tags no type class has.
UnrecognizedTypeIds == {"MAX_ID", "(future)"}
TypeIds == RecognizedTypeIds \cup UnrecognizedTypeIds


\* Mutant: the default label sits on the last case.
SwitchOnTypeId_DefaultIsLastCase(types, id) ==
  LET m == {k \in 1 .. Len(types) : TypeIdOf[types[k]] = id}
  IN IF m = {} THEN Len(types) ELSE CHOOSE k \in m : \A j \in m : k <= j

\* switch (id) { case TYPE_CLASS##Type::type_id: ...; default: break; }
\* the index of the case taken, 0 for the default.
SwitchOnTypeId(types, id) ==
  LET m == {k \in 1 .. Len(types) : TypeIdOf[types[k]] = id}
  IN IF m = {} THEN 0 ELSE CHOOSE k \in m : \A j \in m : k <= j

\* What the case of TYPE_CLASS hands to visitor->Visit: the value cast to
\* TYPE_CLASS##Type, TypeTraits<TYPE_CLASS##Type>::ArrayType or
\* TYPE_CLASS##Scalar.
TYPE_VISIT_INLINE(type_class) == [category |-> type_class, view |-> "Type"]
ARRAY_VISIT_INLINE(type_class) == [category |-> type_class, view |-> "Array"]
SCALAR_VISIT_INLINE(type_class) == [category |-> type_class, view |-> "Scalar"]

VisitCase(fn, type_class) ==
  CASE fn = "VisitTypeInline" -> TYPE_VISIT_INLINE(type_class)
    [] fn = "VisitArrayInline" -> ARRAY_VISIT_INLINE(type_class)
    [] OTHER -> SCALAR_VISIT_INLINE(type_class)

\* The status after the switch.
NotImplemented(fn, id) ==
  IF fn = "VisitScalarInline"
  THEN Status("NotImplemented", <<"Scalar visitor for type not implemented ", id>>)
  ELSE Status("NotImplemented", <<"Type not implemented">>)

DispatchEntries ==
  {Entry(fn, "none", "Status") :
     fn \in {"VisitTypeInline", "VisitArrayInline", "VisitScalarInline"}}

\* The switch and what follows it: the case of the value's tag returns what
\* the visitor's method returns; the default leaves the switch.
Dispatch(fn, id) ==
  LET k == SwitchOnTypeId(ARROW_GENERATE_FOR_ALL_TYPES, id) IN
  IF k # 0
  THEN \E st \in CallbackStatuses :
         /\ visits' = Append(visits,
               MethodCall([method |-> "Visit",
                           arg |-> VisitCase(fn, ARROW_GENERATE_FOR_ALL_TYPES[k])], st))
         /\ ret' = st
  ELSE /\ visits' = visits
       /\ ret' = NotImplemented(fn, id)

VisitTypeInline ==
  /\ pc = "call"
  /\ entry.fn = "VisitTypeInline"
  /\ Dispatch("VisitTypeInline", type_id)
  /\ pc' = "done"
  /\ UNCHANGED <<entry, arr, type_id, bit_counter, block, position,
                 offset_position, i, data, offsets, calls>>

VisitArrayInline ==
  /\ pc = "call"
  /\ entry.fn = "VisitArrayInline"
  /\ Dispatch("VisitArrayInline", type_id)
  /\ pc' = "done"
  /\ UNCHANGED <<entry, arr, type_id, bit_counter, block, position,
                 offset_position, i, data, offsets, calls>>

VisitScalarInline ==
  /\ pc = "call"
  /\ entry.fn = "VisitScalarInline"
  /\ Dispatch("VisitScalarInline", type_id)
  /\ pc' = "done"
  /\ UNCHANGED <<entry, arr, type_id, bit_counter, block, position,
                 offset_position, i, data, offsets, calls>>

InitDispatch ==
  \E e \in DispatchEntries :
    \E id \in TypeIds :
      /\ entry = e
      /\ arr = ArrayData(0, 0, NoBuffer, NoBuffer, NoBuffer, 0)
      /\ type_id = id
      /\ pc = "call"
      /\ bit_counter = NoCounter
      /\ block = NoBlock
      /\ position = 0
      /\ offset_position = 0
      /\ i = 0
      /\ data = NullPtr
      /\ offsets = NullPtr
      /\ calls = <<>>
      /\ visits = <<>>
      /\ ret = NotReturned

NextDispatch ==
  \/ VisitTypeInline
  \/ VisitArrayInline
  \/ VisitScalarInline

SpecDispatch == InitDispatch /\ [][NextDispatch]_vars

----------------------------------------------------------------------------

Next ==
  \/ VisitBitBlocks_Begin
  \/ VisitBitBlocks_NextBlock
  \/ VisitBitBlocks_Visit
  \/ VisitBitBlocks_EndFor
  \/ VisitBitBlocks_Return
  \/ VisitNullBitmapInline_Begin
  \/ VisitNullBitmapInline_NextBlock
  \/ VisitNullBitmapInline_Visit
  \/ VisitNullBitmapInline_EndFor
  \/ VisitNullBitmapInline_Return

Spec == Init /\ [][Next]_vars


----------------------------------------------------------------------------
(* The reference semantics the properties compare the traversals with *)

TraversalEntry == ValueEntry \/ BitmapEntry
DispatchEntry == entry \in DispatchEntries

\* The reference bit-by-bit scan: position n is valid when there is no
\* validity bitmap or bit offset + n of it is set.
RefValid(a, n) ==
  ~a.buffers[0].present \/ GetBit(a.buffers[0].data, a.offset + n)

\* The validity a call of func reported.
CallValid(c) == IF BitmapEntry THEN c.arg ELSE c.arg.has_value

\* The stored element of position n, by absolute addressing.
StoredValue(T, a, n) ==
  LET raw == a.buffers[1].data IN
  CASE T = "c_type" -> raw[a.offset + n + 1]
    [] T = "boolean" -> GetBit(raw, a.offset + n)
    [] T = "base_binary" ->
         StringView(Ptr(IF a.buffers[2].present THEN 2 ELSE -1, raw[a.offset + n + 1]),
                    raw[a.offset + n + 2] - raw[a.offset + n + 1])
    [] OTHER -> StringView(Ptr(1, (a.offset + n) * a.byte_width), a.byte_width)

\* The optional position n is to be observed as.
Expected(T, a, n) ==
  IF RefValid(a, n) THEN Some(StoredValue(T, a, n)) ELSE None

OptEq(x, y) ==
  /\ x.has_value = y.has_value
  /\ x.has_value => x.value = y.value

\* The bytes a view into the value buffer covers.
ViewBytes(a, v) == SubSeq(a.buffers[v.ptr.buf].data, v.ptr.idx + 1, v.ptr.idx + v.size)

LastCall == calls[Len(calls)]

----------------------------------------------------------------------------
(* The properties *)

\* C1: a void-form traversal (VisitArrayDataInline or VisitNullBitmapInline
\* with a void callback) of an array of length L calls the callback once per
\* logical position, for the positions 0 .. L-1 in increasing order, never
\* more than L times, is never stuck before it returns, and has made
\* exactly L calls when it returns.
C1_VoidVisitsEveryPositionOnce ==
  (TraversalEntry /\ entry.form = "Void") =>
    /\ Len(calls) <= arr.length
    /\ \A k \in 1 .. Len(calls) : calls[k].position = k - 1
    /\ pc = "done" => (Len(calls) = arr.length /\ ret = Void)
    /\ pc # "done" => ENABLED Next

\* A void traversal of a sliced array of MaxLength elements with valid and
\* null positions has returned.
C1_Witness ==
  /\ TraversalEntry /\ entry.form = "Void"
  /\ pc = "done"
  /\ arr.length = MaxLength /\ arr.offset = MaxOffset
  /\ Len(calls) = MaxLength
  /\ \E j, k \in 1 .. Len(calls) : CallValid(calls[j]) /\ ~CallValid(calls[k])

\* C2: in the Status form of the value iterator and of the validity
\* iterator, the calls are for positions 0, 1, 2, ... in order, every call
\* but the last returned OK, and when the last call (at position k, the
\* k+1-th call) failed the traversal has returned that call's status.
C2_FailFast ==
  (TraversalEntry /\ entry.form = "Status") =>
    /\ \A k \in 1 .. Len(calls) : calls[k].position = k - 1
    /\ \A k \in 1 .. (Len(calls) - 1) : calls[k].status = StatusOK
    /\ (Len(calls) > 0 /\ LastCall.status # StatusOK) =>
         (pc = "done" /\ ret = LastCall.status)
    /\ pc = "done" => (ret = StatusOK <=> (\A k \in 1 .. Len(calls) : calls[k].status = StatusOK))

\* The callback failed at position 1, inside a mixed run.
C2_Witness ==
  /\ ValueEntry /\ entry.form = "Status"
  /\ pc = "done"
  /\ Len(calls) = 2
  /\ ret.code = "IOError"
  /\ ~AllSet(block) /\ ~NoneSet(block)
  /\ Len(calls) < arr.length

\* C3: without a validity bitmap every position is reported valid: the
\* value iterator calls only the not-null lambda (func gets a value, the
\* dual visitor VisitValue), the validity iterator passes true, and every
\* run takes the all-set branch, so the per-position bit test is not reached.
C3_AbsentBitmapAllValid ==
  (TraversalEntry /\ ~arr.buffers[0].present) =>
    /\ \A k \in 1 .. Len(calls) : CallValid(calls[k])
    /\ \A k \in 1 .. Len(visits) : visits[k].method = "VisitValue"
    /\ pc = "for" => AllSet(block)

\* A sliced array of MaxLength elements without a validity bitmap has been
\* traversed to the end.
C3_Witness ==
  /\ TraversalEntry /\ ~arr.buffers[0].present
  /\ pc = "done"
  /\ arr.length = MaxLength /\ arr.offset = MaxOffset
  /\ Len(calls) = MaxLength

\* C4: whatever runs the scanner cuts the range into, the validity reported
\* for position n (the n+1-th call) is that of the reference bit-by-bit
\* test of bit offset + n.
C4_RunScanMatchesBitByBit ==
  TraversalEntry =>
    \A k \in 1 .. Len(calls) : CallValid(calls[k]) <=> RefValid(arr, k - 1)

\* The validity iterator, on a bitmap at bit offset 3, has just visited an
\* all-set run of two positions that starts at position 63 and ends at 64.
C4_Witness ==
  /\ BitmapEntry
  /\ arr.length = WordBoundaryLength /\ arr.offset = 3
  /\ pc = "for"
  /\ position = 63 /\ block.length = 2 /\ i = 2 /\ AllSet(block)
  /\ Len(calls) = 65
  /\ ~CallValid(calls[61]) /\ CallValid(calls[64]) /\ CallValid(calls[65])

\* C7: for a binary or string array, the view a valid position n is
\* observed with starts at byte offsets[offset + n] of the value buffer
\* (index 0 of the buffer being its first byte, whatever the array's
\* offset) and has offsets[offset + n + 1] - offsets[offset + n] bytes; the
\* array of offsets [0,3,3,7] over "abcdefg" yields "abc", "", "defg".
C7_BinaryViewBounds ==
  (ValueEntry /\ entry.T = "base_binary") =>
    /\ \A k \in 1 .. Len(calls) :
         OptEq(calls[k].arg, Expected("base_binary", arr, k - 1))
    /\ (arr = ExampleStrings /\ pc = "done" /\ ret.code \in {"OK", "(void)"}) =>
         [k \in 1 .. Len(calls) |-> ViewBytes(arr, calls[k].arg.value)]
           = <<(<<97, 98, 99>>), (<<>>), (<<100, 101, 102, 103>>)>>

\* A sliced binary array with a value buffer has been traversed, and a
\* non-empty view that does not start at byte 0 was observed.
C7_Witness ==
  /\ ValueEntry /\ entry.T = "base_binary"
  /\ pc = "done"
  /\ arr.offset = MaxOffset /\ arr.length = MaxLength /\ arr.buffers[2].present
  /\ Len(calls) = MaxLength
  /\ \E k \in 1 .. Len(calls) :
       /\ calls[k].arg.has_value
       /\ calls[k].arg.value.size > 0
       /\ calls[k].arg.value.ptr.idx > 0

\* C8: for a fixed-size binary array, the view a valid position n is
\* observed with starts at byte (offset + n) * byte_width of the value
\* buffer and has byte_width bytes.
C8_FixedSizeBinaryView ==
  (ValueEntry /\ entry.T = "fixed_size_binary") =>
    \A k \in 1 .. Len(calls) :
      OptEq(calls[k].arg, Expected("fixed_size_binary", arr, k - 1))

\* A sliced fixed-size binary array was traversed: null, valid, null.
C8_Witness ==
  /\ ValueEntry /\ entry.T = "fixed_size_binary"
  /\ pc = "done"
  /\ arr.offset = MaxOffset
  /\ Len(calls) = 3
  /\ ~calls[1].arg.has_value /\ calls[2].arg.has_value /\ ~calls[3].arg.has_value

\* C9: for a fixed-width numeric or boolean array, the optionals observed
\* are, in position order, Some(the element stored at offset + n) for a
\* valid position n and None for a null one; the array of length 5 with
\* validity 10110 and values [1,_,3,4,_] yields Some(1), None, Some(3),
\* Some(4), None.
C9_NumericAndBooleanValues ==
  (ValueEntry /\ entry.T \in {"c_type", "boolean"}) =>
    /\ \A k \in 1 .. Len(calls) : OptEq(calls[k].arg, Expected(entry.T, arr, k - 1))
    /\ (arr = ExampleInts /\ entry.T = "c_type" /\ pc = "done"
        /\ ret.code \in {"OK", "(void)"}) =>
         /\ Len(calls) = 5
         /\ \A k \in 1 .. 5 :
              OptEq(calls[k].arg, <<Some(1), None, Some(3), Some(4), None>>[k])

\* The example array has been visited in void form.
C9_Witness ==
  /\ entry = Entry("VisitArrayDataInline", "c_type", "Void")
  /\ arr = ExampleInts
  /\ pc = "done"
  /\ Len(calls) = 5

\* C10: ArrayDataVisitor<T>::Visit calls one visitor method per position,
\* in position order: VisitValue(v) where the position is to be observed as
\* Some(v), VisitNull() where as None; every method call but the last
\* returned OK, a failing call is the last and its status is returned, and
\* a traversal that returns OK has made one call per position.
C10_DualVisitorEquivalent ==
  entry.fn = "ArrayDataVisitor" =>
    /\ Len(visits) = Len(calls)
    /\ \A k \in 1 .. Len(visits) :
         LET e == Expected(entry.T, arr, k - 1) IN
         /\ visits[k].method = (IF e.has_value THEN "VisitValue" ELSE "VisitNull")
         /\ e.has_value => visits[k].arg = e.value
         /\ visits[k].status = calls[k].status
    /\ \A k \in 1 .. (Len(visits) - 1) : visits[k].status = StatusOK
    /\ (Len(visits) > 0 /\ visits[Len(visits)].status # StatusOK) =>
         (pc = "done" /\ ret = visits[Len(visits)].status)
    /\ (pc = "done" /\ ret = StatusOK) => Len(visits) = arr.length

\* The dual visitor's VisitNull and VisitValue have both been called, and
\* the last call failed before the end of the array.
C10_Witness ==
  /\ entry.fn = "ArrayDataVisitor"
  /\ pc = "done"
  /\ ret.code = "Invalid"
  /\ Len(visits) = 2 /\ Len(visits) < arr.length
  /\ \E j, k \in 1 .. Len(visits) :
       visits[j].method = "VisitValue" /\ visits[k].method = "VisitNull"

\* C5: a dispatcher called on a value whose tag no type class has returns
\* NotImplemented, without a visitor method called; the call is never stuck.
C5_UnrecognizedTagNotImplemented ==
  (DispatchEntry /\ type_id \notin RecognizedTypeIds) =>
    /\ Len(visits) = 0
    /\ pc = "call" => ENABLED NextDispatch
    /\ pc = "done" => ret = NotImplemented(entry.fn, type_id)

\* The scalar dispatcher has returned for the tag MAX_ID.
C5_Witness ==
  /\ entry.fn = "VisitScalarInline"
  /\ type_id = "MAX_ID"
  /\ pc = "done"
  /\ ret.code = "NotImplemented"

\* C6: for every tag of a type class, a dispatcher's call is never stuck
\* and makes exactly one visitor call, of Visit, with the value viewed as
\* the type, array or scalar of the class the tag belongs to, and returns
\* the status that call returned.
C6_DispatchTotal ==
  (DispatchEntry /\ type_id \in RecognizedTypeIds) =>
    /\ pc = "call" => (Len(visits) = 0 /\ ENABLED NextDispatch)
    /\ pc = "done" =>
         /\ Len(visits) = 1
         /\ visits[1].method = "Visit"
         /\ visits[1].arg.category \in TypeClasses
         /\ TypeIdOf[visits[1].arg.category] = type_id
         /\ visits[1].arg.view =
              (CASE entry.fn = "VisitTypeInline" -> "Type"
                 [] entry.fn = "VisitArrayInline" -> "Array"
                 [] OTHER -> "Scalar")
         /\ ret = visits[1].status

\* The array dispatcher has visited a LargeList array as a LargeList array,
\* and the visitor's failure has been returned.
C6_Witness ==
  /\ entry.fn = "VisitArrayInline"
  /\ type_id = "LARGE_LIST"
  /\ pc = "done"
  /\ Len(visits) = 1
  /\ visits[1].arg = [category |-> "LargeList", view |-> "Array"]
  /\ ret.code = "Invalid"

=============================================================================
